---- MODULE Spec2Model ----
(***************************************************************************)
(* A model of the redstone signal core of mis-builder                      *)
(* (src/src/MinecraftItemBuilder.tsx): calculateSignalStrength, the score  *)
(* of a container, and optimizeForRedstone, the search that moves a        *)
(* container to the threshold of the next signal strength.                 *)
(*                                                                         *)
(* A container is a sequence of slots.  The source indexes it from 0, a    *)
(* TLA+ sequence from 1: the slot the source calls slots[i] is s[i + 1]    *)
(* here, written At(s, i).  Every index kept in a variable or in a slot    *)
(* (originalIndex) is the source's index.                                  *)
(***************************************************************************)
EXTENDS Integers, Sequences, FiniteSets, TLC

VARIABLES
    given,                      \* the container the caller starts from
    input,                      \* the argument `slots` of the call in progress
    previousSignal,             \* the caller's score of the container it passes
    optimizedSignal,            \* the caller's score of the container it got back
    optimizedSignalPlus1,       \* ... with one more unit put into slot 0
    optimizedSlots,             \* the working array of optimizeForRedstone
    currentSignal,              \* score of the normalized input
    hasQuantityAdjustments,     \* some normalized quantity exceeds 1
    forcedItems,                \* indices of the candidates, in array order
    AreUnstackablesAtThreshold,
    Are16StackablesAtThreshold,
    Are64StackablesAtThreshold,
    target,                     \* index of targetUnstackable / itemToDuplicate
    cursor,                     \* index the empty-slot scan has reached
    queue,                      \* indices the running increment loop has left
    pc,                         \* position in the code
    call,                       \* 1: the call on `given`, 2: the call on its
                                \* result, 3: the call on `given` once more
    result,                     \* what the finished call returned
    firstResult                 \* what the caller got back from call 1

vars == <<given, input, previousSignal, optimizedSignal, optimizedSignalPlus1,
          optimizedSlots, currentSignal, hasQuantityAdjustments, forcedItems,
          AreUnstackablesAtThreshold, Are16StackablesAtThreshold,
          Are64StackablesAtThreshold, target, cursor, queue, pc, call, result,
          firstResult>>

(***************************************************************************)
(* Slots.                                                                  *)
(***************************************************************************)

\* An optional field that is not set (JavaScript's undefined).
Unset == -2

\* An empty slot (JavaScript's null).
Null == [id |-> "null"]

\* originalIndex of a slot made by duplication.
Synthesized == -1

\* An Item in a container, with none of the optional fields set but quantity.
NewSlot(id, stack_size, rarity, quantity) ==
    [id |-> id, stack_size |-> stack_size, rarity |-> rarity,
     quantity |-> quantity, originalIndex |-> Unset, isDuplicate |-> FALSE,
     forceAdjusted |-> "unset", isAdjusted |-> "unset"]

At(s, i) == s[i + 1]

Indices(s) == 0 .. (Len(s) - 1)

Occupied(s) == {i \in Indices(s) : At(s, i) # Null}

\* s.filter((item) => item != null)
WithoutNulls(s) == SelectSeq(s, LAMBDA x : x # Null)

Min(a, b) == IF a < b THEN a ELSE b

\* x || d for a number: d when x is undefined or 0
OrDefault(x, d) == IF x = Unset \/ x = 0 THEN d ELSE x

(***************************************************************************)
(* calculateSignalStrength.  The source accumulates quantity / stackLimit  *)
(* in double precision and floors once.  Every stack limit of the model    *)
(* divides 64, so each term and each partial sum is a multiple of 1/64 and *)
(* is exact in a double; the sum is kept here in sixty-fourths.  The final *)
(* Math.floor((14 / 54) * fillSum + 1) agrees with the exact               *)
(* floor(14 * sum64 / (54 * 64)) + 1 for every sum64 in 0 .. 64 * 64 * 54  *)
(* (compared value by value in IEEE double arithmetic), which covers every *)
(* container of the model.                                                 *)
(***************************************************************************)

invSize == 54

MaxStack == 64

\* Math.min(64, item.stack_size || 64)
StackLimit(item) == Min(MaxStack, OrDefault(item.stack_size, MaxStack))

\* item.quantity || 1
Quantity(item) == OrDefault(item.quantity, 1)

\* quantity / stackLimit, in sixty-fourths
FillTerm64(item) == Quantity(item) * (MaxStack \div StackLimit(item))

\* items.reduce((sum, item) => sum + quantity / stackLimit, 0), over the
\* first k items
RECURSIVE FillSumOver(_, _)
FillSumOver(items, k) ==
    IF k = 0 THEN 0 ELSE FillSumOver(items, k - 1) + FillTerm64(items[k])

FillSum64(items) == FillSumOver(items, Len(items))

\* Mutant of SignalOfFill: Math.round written for Math.floor.
SignalOfFillRounded(sum64, nItems) ==
    (2 * 14 * sum64 + invSize * MaxStack) \div (2 * invSize * MaxStack)
        + Min(1, nItems)

\* Mutant of SignalOfFill: 15 levels of fill, and one more for any content.
SignalOfFillFifteen(sum64, nItems) ==
    (15 * sum64) \div (invSize * MaxStack) + Min(1, nItems)

\* Mutant of SignalOfFill: items.length written for Math.min(1, items.length).
SignalOfFillPerItem(sum64, nItems) ==
    (14 * sum64) \div (invSize * MaxStack) + nItems

\* Mutant of SignalOfFill: Math.ceil written for Math.floor.
SignalOfFillCeiling(sum64, nItems) ==
    (14 * sum64 + invSize * MaxStack - 1) \div (invSize * MaxStack)
        + Min(1, nItems)

SignalOfFill(sum64, nItems) ==
    (14 * sum64) \div (invSize * MaxStack) + Min(1, nItems)

calculateSignalStrength(slots) ==
    LET items == WithoutNulls(slots)
    IN  IF Len(items) = 0 THEN 0
        ELSE SignalOfFill(FillSum64(items), Len(items))

(***************************************************************************)
(* getRarityOrder.                                                         *)
(***************************************************************************)

getRarityOrder(rarity) ==
    CASE rarity = "common"   -> 0
      [] rarity = "uncommon" -> 1
      [] rarity = "rare"     -> 2
      [] rarity = "epic"     -> 3
      [] OTHER               -> 0

(***************************************************************************)
(* optimizeForRedstone: helpers.                                           *)
(***************************************************************************)

Flag(b) == IF b THEN "true" ELSE "false"

\* <<0, 1, ..., Len(s) - 1>>
IndexSeq(s) == [k \in 1 .. Len(s) |-> k - 1]

Reverse(s) == [k \in 1 .. Len(s) |-> s[Len(s) + 1 - k]]

\* itemCounts()[id]: how many occupied slots hold this identifier
itemCounts(s, id) == Cardinality({i \in Occupied(s) : At(s, i).id = id})

\* Mutant of IsAdjustedNow: hasQuantity alone.
IsAdjustedNowByQuantity(s, i) == At(s, i).quantity > 1

\* hasQuantity || hasMultipleInstances, for the slot at index i
IsAdjustedNow(s, i) ==
    At(s, i).quantity > 1 \/ itemCounts(s, At(s, i).id) > 1

\* The loop that sets forceAdjusted of every occupied slot.
MarkAdjusted(s) ==
    [k \in 1 .. Len(s) |->
        IF s[k] = Null THEN Null
        ELSE [s[k] EXCEPT !.forceAdjusted = Flag(IsAdjustedNow(s, k - 1))]]

\* The loop that marks every occupied slot a candidate.
MarkAll(s) ==
    [k \in 1 .. Len(s) |->
        IF s[k] = Null THEN Null ELSE [s[k] EXCEPT !.forceAdjusted = "true"]]

\* Mutant of Normalized: originalIndex: idx, whatever the slot carried.
NormalizedFresh(slots) ==
    [k \in 1 .. Len(slots) |->
        IF slots[k] = Null THEN Null
        ELSE [slots[k] EXCEPT
                !.quantity = OrDefault(slots[k].quantity, 1),
                !.originalIndex = k - 1]]

\* slots.map(...): quantity and originalIndex take their defaults
Normalized(slots) ==
    [k \in 1 .. Len(slots) |->
        IF slots[k] = Null THEN Null
        ELSE [slots[k] EXCEPT
                !.quantity = OrDefault(slots[k].quantity, 1),
                !.originalIndex = IF slots[k].originalIndex = Unset
                                  THEN k - 1 ELSE slots[k].originalIndex]]

SomeQuantityAbove1(s) == \E i \in Occupied(s) : At(s, i).quantity > 1

\* Mutant of Classified: every slot is marked only when the first loop has
\* marked none.
ClassifiedByRule(s) ==
    IF \E i \in Occupied(s) : IsAdjustedNow(s, i) THEN MarkAdjusted(s)
    ELSE MarkAll(MarkAdjusted(s))

Classified(s) == IF SomeQuantityAbove1(s) THEN MarkAdjusted(s) ELSE MarkAll(MarkAdjusted(s))

ForcedIndices(s) ==
    SelectSeq(IndexSeq(s),
              LAMBDA i : At(s, i) # Null /\ At(s, i).forceAdjusted = "true")

\* forcedItems.some((item) => item.stack_size === size)
HasStack(size) ==
    {k \in 1 .. Len(forcedItems) :
        At(optimizedSlots, forcedItems[k]).stack_size = size} # {}

hasUnstackable == HasStack(1)
hasSixteen == HasStack(16)
hasSixtyFour == HasStack(64)

\* Mutant of NextEmpty: the scan without drop(1).
NextEmptyFromZero(s, from) ==
    LET free == {i \in Indices(s) : i >= from - 1 /\ At(s, i) = Null}
    IN  IF free = {} THEN -1 ELSE CHOOSE i \in free : \A j \in free : i <= j

\* The first empty index at or after `from`, never index 0; -1 when none is left.
NextEmpty(s, from) ==
    LET free == {i \in Indices(s) : i >= from /\ i >= 1 /\ At(s, i) = Null}
    IN  IF free = {} THEN -1 ELSE CHOOSE i \in free : \A j \in free : i <= j

Put(s, i, item) == [s EXCEPT ![i + 1] = item]

SetQuantity(s, i, q) == [s EXCEPT ![i + 1].quantity = q]

\* Mutant of Exceeds: the comparison lets the score rise by one.
ExceedsByTwo(s) == calculateSignalStrength(s) > currentSignal + 1

\* Mutant of Exceeds: >= written for >.
ExceedsOrEqual(s) == calculateSignalStrength(s) >= currentSignal

\* newSignal > currentSignal, for the working array as it stands
Exceeds(s) == calculateSignalStrength(s) > currentSignal

callVars == <<given, firstResult, input, call, result, previousSignal, optimizedSignal,
              optimizedSignalPlus1>>
signalVars == <<previousSignal, optimizedSignal, optimizedSignalPlus1>>
classVars == <<currentSignal, hasQuantityAdjustments, forcedItems>>
flagVars == <<AreUnstackablesAtThreshold, Are16StackablesAtThreshold,
              Are64StackablesAtThreshold>>
scanVars == <<target, cursor>>

(***************************************************************************)
(* optimizeForRedstone: entry, normalization and classification.           *)
(***************************************************************************)

\* Mutant of ReturnEmpty: no early return, the empty container is laid out.
ReturnEmptyLaidOut ==
    /\ pc = "call"
    /\ Occupied(input) = {}
    /\ result' = [k \in 1 .. invSize |-> Null]
    /\ pc' = "returned"
    /\ UNCHANGED <<given, firstResult, input, call, signalVars, optimizedSlots, classVars,
                   flagVars, scanVars, queue>>

\* if (slots.every((x) => x == null)) return slots;
ReturnEmpty ==
    /\ pc = "call"
    /\ Occupied(input) = {}
    /\ result' = input
    /\ pc' = "returned"
    /\ UNCHANGED <<given, firstResult, input, call, signalVars, optimizedSlots, classVars,
                   flagVars, scanVars, queue>>

\* A length other than 54, an occupied slot 0, or a quantity above the limit
\* of its stack.
BreaksPrecondition(slots) ==
    \/ Len(slots) # invSize
    \/ (Len(slots) > 0 /\ At(slots, 0) # Null)
    \/ \E i \in Occupied(slots) :
            OrDefault(At(slots, i).quantity, 1) > StackLimit(At(slots, i))

\* Mutant of Normalize: the argument is validated first, and a broken
\* precondition throws.
NormalizeChecked ==
    /\ pc = "call"
    /\ Occupied(input) # {}
    /\ IF BreaksPrecondition(input)
       THEN /\ pc' = "threw"
            /\ UNCHANGED <<optimizedSlots, currentSignal>>
       ELSE /\ optimizedSlots' = Normalized(input)
            /\ currentSignal' = calculateSignalStrength(Normalized(input))
            /\ pc' = "classify"
    /\ UNCHANGED <<callVars, hasQuantityAdjustments, forcedItems, flagVars,
                   scanVars, queue>>

\* Mutant of Normalize: the score of the argument is read from a memo that an
\* earlier scorer call filled and that is never refreshed.
NormalizeMemoized ==
    /\ pc = "call"
    /\ Occupied(input) # {}
    /\ optimizedSlots' = Normalized(input)
    /\ currentSignal' = IF call = 1
                        THEN calculateSignalStrength(Normalized(input))
                        ELSE optimizedSignalPlus1
    /\ pc' = "classify"
    /\ UNCHANGED <<callVars, hasQuantityAdjustments, forcedItems, flagVars,
                   scanVars, queue>>

\* Mutant of Normalize: the defaults written into the slots of the argument.
NormalizeInPlace ==
    /\ pc = "call"
    /\ Occupied(input) # {}
    /\ input' = Normalized(input)
    /\ optimizedSlots' = Normalized(input)
    /\ currentSignal' = calculateSignalStrength(Normalized(input))
    /\ pc' = "classify"
    /\ UNCHANGED <<given, firstResult, call, result, signalVars, hasQuantityAdjustments,
                   forcedItems, flagVars, scanVars, queue>>

Normalize ==
    /\ pc = "call"
    /\ Occupied(input) # {}
    /\ optimizedSlots' = Normalized(input)
    /\ currentSignal' = calculateSignalStrength(Normalized(input))
    /\ pc' = "classify"
    /\ UNCHANGED <<callVars, hasQuantityAdjustments, forcedItems, flagVars,
                   scanVars, queue>>

Classify ==
    /\ pc = "classify"
    /\ optimizedSlots' = Classified(optimizedSlots)
    /\ hasQuantityAdjustments' = SomeQuantityAbove1(optimizedSlots)
    /\ forcedItems' = ForcedIndices(Classified(optimizedSlots))
    /\ AreUnstackablesAtThreshold' = FALSE
    /\ Are16StackablesAtThreshold' = FALSE
    /\ Are64StackablesAtThreshold' = FALSE
    /\ pc' = "s1"
    /\ UNCHANGED <<callVars, currentSignal, scanVars, queue>>

(***************************************************************************)
(* Strategy 1: duplicate an unstackable into the empty slots.              *)
(***************************************************************************)

\* Mutant of TakesOverUnstackable: <= written for <.
TakesOverUnstackableOrEqual(item, acc) ==
    getRarityOrder(item.rarity) <= getRarityOrder(acc.rarity)

\* The callback of unstackables.reduce: item replaces acc
TakesOverUnstackable(item, acc) ==
    getRarityOrder(item.rarity) < getRarityOrder(acc.rarity)

\* The position after `pos` of the next element of list that replaces the
\* accumulator list[pos]; 0 when the accumulator stays to the end.
NextUnstackable(s, list, pos) ==
    LET later == {k \in (pos + 1) .. Len(list) :
                    TakesOverUnstackable(At(s, list[k]), At(s, list[pos]))}
    IN  IF later = {} THEN 0 ELSE CHOOSE k \in later : \A j \in later : k <= j

\* unstackables.reduce(..., unstackables[0]), from the accumulator list[pos]
\* on. The accumulator changes only to a lower rarity rank, so the reduce is
\* followed from one replacement to the next.
RECURSIVE ReduceUnstackable(_, _, _)
ReduceUnstackable(s, list, pos) ==
    IF NextUnstackable(s, list, pos) = 0 THEN list[pos]
    ELSE ReduceUnstackable(s, list, NextUnstackable(s, list, pos))

targetUnstackable(s, forced) ==
    LET unstackables == SelectSeq(forced, LAMBDA i : At(s, i).stack_size = 1)
    IN  ReduceUnstackable(s, unstackables, 1)

\* Mutant of UnstackableCopy: the clone keeps the originalIndex of its source.
UnstackableCopyKeepingIndex(item) ==
    [item EXCEPT !.quantity = 1, !.isDuplicate = TRUE, !.forceAdjusted = "true"]

UnstackableCopy(item) ==
    [item EXCEPT !.quantity = 1, !.originalIndex = Synthesized,
                 !.isDuplicate = TRUE, !.forceAdjusted = "true"]

Strategy1Skip ==
    /\ pc = "s1"
    /\ ~(hasUnstackable /\ ~hasQuantityAdjustments)
    /\ pc' = "s2"
    /\ UNCHANGED <<callVars, optimizedSlots, classVars, flagVars, scanVars, queue>>

\* Mutant of Strategy1Target: if (hasUnstackable), whatever the quantities.
Strategy1TargetAlways ==
    /\ pc = "s1"
    /\ hasUnstackable
    /\ target' = targetUnstackable(optimizedSlots, forcedItems)
    /\ cursor' = 1
    /\ pc' = "s1_scan"
    /\ UNCHANGED <<callVars, optimizedSlots, classVars, flagVars, queue>>

Strategy1Target ==
    /\ pc = "s1"
    /\ hasUnstackable /\ ~hasQuantityAdjustments
    /\ target' = targetUnstackable(optimizedSlots, forcedItems)
    /\ cursor' = 1
    /\ pc' = "s1_scan"
    /\ UNCHANGED <<callVars, optimizedSlots, classVars, flagVars, queue>>

Strategy1Place ==
    /\ pc = "s1_scan"
    /\ NextEmpty(optimizedSlots, cursor) # -1
    /\ LET i == NextEmpty(optimizedSlots, cursor)
       IN  /\ optimizedSlots' =
                Put(optimizedSlots, i, UnstackableCopy(At(optimizedSlots, target)))
           /\ cursor' = i
    /\ pc' = "s1_judge"
    /\ UNCHANGED <<callVars, classVars, flagVars, target, queue>>

Strategy1Judge ==
    /\ pc = "s1_judge"
    /\ IF Exceeds(optimizedSlots)
       THEN /\ optimizedSlots' = Put(optimizedSlots, cursor, Null)
            /\ AreUnstackablesAtThreshold' = TRUE
            /\ cursor' = cursor
            /\ pc' = "s2"
       ELSE /\ cursor' = cursor + 1
            /\ pc' = "s1_scan"
            /\ UNCHANGED <<optimizedSlots, AreUnstackablesAtThreshold>>
    /\ UNCHANGED <<callVars, classVars, Are16StackablesAtThreshold,
                   Are64StackablesAtThreshold, target, queue>>

Strategy1Exhausted ==
    /\ pc = "s1_scan"
    /\ NextEmpty(optimizedSlots, cursor) = -1
    /\ pc' = "s2"
    /\ UNCHANGED <<callVars, optimizedSlots, classVars, flagVars, scanVars, queue>>

(***************************************************************************)
(* Strategies 2 and 3: increment the candidates of one stack class, from   *)
(* the end of the array.                                                   *)
(***************************************************************************)

\* Mutant of ClassFromEnd: the candidates of a class without reverse().
ClassFromStart(s, size) ==
    SelectSeq(Tail(IndexSeq(s)),
              LAMBDA i : /\ At(s, i) # Null
                         /\ At(s, i).forceAdjusted = "true"
                         /\ At(s, i).stack_size = size)

\* optimizedSlots.slice(1).reverse().filter(...): the candidates of a class
ClassFromEnd(s, size) ==
    SelectSeq(Reverse(Tail(IndexSeq(s))),
              LAMBDA i : /\ At(s, i) # Null
                         /\ At(s, i).forceAdjusted = "true"
                         /\ At(s, i).stack_size = size)

Strategy2Skip ==
    /\ pc = "s2"
    /\ ~hasSixteen
    /\ pc' = "s3"
    /\ UNCHANGED <<callVars, optimizedSlots, classVars, flagVars, scanVars, queue>>

Strategy2Enter ==
    /\ pc = "s2"
    /\ hasSixteen
    /\ queue' = ClassFromEnd(optimizedSlots, 16)
    /\ pc' = "s2_loop"
    /\ UNCHANGED <<callVars, optimizedSlots, classVars, flagVars, scanVars>>

\* item.quantity++ under while (item.quantity < 16)
Strategy2Increment ==
    /\ pc = "s2_loop"
    /\ queue # << >>
    /\ At(optimizedSlots, Head(queue)).quantity < 16
    /\ optimizedSlots' = SetQuantity(optimizedSlots, Head(queue),
                                     At(optimizedSlots, Head(queue)).quantity + 1)
    /\ pc' = "s2_judge"
    /\ UNCHANGED <<callVars, classVars, flagVars, scanVars, queue>>

\* Mutant of Strategy2Judge: item.quantity-- before the comparison, so the
\* increment is undone whether or not the score rose.
Strategy2JudgeUndoing ==
    /\ pc = "s2_judge"
    /\ optimizedSlots' = SetQuantity(optimizedSlots, Head(queue),
                                     At(optimizedSlots, Head(queue)).quantity - 1)
    /\ IF Exceeds(optimizedSlots)
       THEN /\ Are16StackablesAtThreshold' = TRUE
            /\ pc' = "s3"
       ELSE /\ pc' = "s2_loop"
            /\ UNCHANGED Are16StackablesAtThreshold
    /\ UNCHANGED <<callVars, classVars, AreUnstackablesAtThreshold,
                   Are64StackablesAtThreshold, scanVars, queue>>

Strategy2Judge ==
    /\ pc = "s2_judge"
    /\ IF Exceeds(optimizedSlots)
       THEN /\ optimizedSlots' = SetQuantity(optimizedSlots, Head(queue),
                                     At(optimizedSlots, Head(queue)).quantity - 1)
            /\ Are16StackablesAtThreshold' = TRUE
            /\ pc' = "s3"
       ELSE /\ pc' = "s2_loop"
            /\ UNCHANGED <<optimizedSlots, Are16StackablesAtThreshold>>
    /\ UNCHANGED <<callVars, classVars, AreUnstackablesAtThreshold,
                   Are64StackablesAtThreshold, scanVars, queue>>

\* the while loop ends at quantity 16: on to the next candidate
Strategy2Next ==
    /\ pc = "s2_loop"
    /\ queue # << >>
    /\ ~(At(optimizedSlots, Head(queue)).quantity < 16)
    /\ queue' = Tail(queue)
    /\ UNCHANGED <<callVars, optimizedSlots, classVars, flagVars, scanVars, pc>>

\* Mutant of Strategy2Exhausted: the class is marked at threshold when its
\* candidates run out.
Strategy2ExhaustedAtThreshold ==
    /\ pc = "s2_loop"
    /\ queue = << >>
    /\ Are16StackablesAtThreshold' = TRUE
    /\ pc' = "s3"
    /\ UNCHANGED <<callVars, optimizedSlots, classVars, AreUnstackablesAtThreshold,
                   Are64StackablesAtThreshold, scanVars, queue>>

Strategy2Exhausted ==
    /\ pc = "s2_loop"
    /\ queue = << >>
    /\ pc' = "s3"
    /\ UNCHANGED <<callVars, optimizedSlots, classVars, flagVars, scanVars, queue>>

Strategy3Skip ==
    /\ pc = "s3"
    /\ ~hasSixtyFour
    /\ pc' = "s4"
    /\ UNCHANGED <<callVars, optimizedSlots, classVars, flagVars, scanVars, queue>>

Strategy3Enter ==
    /\ pc = "s3"
    /\ hasSixtyFour
    /\ queue' = ClassFromEnd(optimizedSlots, 64)
    /\ pc' = "s3_loop"
    /\ UNCHANGED <<callVars, optimizedSlots, classVars, flagVars, scanVars>>

\* Mutant of Strategy3Increment: while (item.quantity <= 64).
Strategy3IncrementInclusive ==
    /\ pc = "s3_loop"
    /\ queue # << >>
    /\ At(optimizedSlots, Head(queue)).quantity <= 64
    /\ optimizedSlots' = SetQuantity(optimizedSlots, Head(queue),
                                     At(optimizedSlots, Head(queue)).quantity + 1)
    /\ pc' = "s3_judge"
    /\ UNCHANGED <<callVars, classVars, flagVars, scanVars, queue>>

\* item.quantity++ under while (item.quantity < 64)
Strategy3Increment ==
    /\ pc = "s3_loop"
    /\ queue # << >>
    /\ At(optimizedSlots, Head(queue)).quantity < 64
    /\ optimizedSlots' = SetQuantity(optimizedSlots, Head(queue),
                                     At(optimizedSlots, Head(queue)).quantity + 1)
    /\ pc' = "s3_judge"
    /\ UNCHANGED <<callVars, classVars, flagVars, scanVars, queue>>

Strategy3Judge ==
    /\ pc = "s3_judge"
    /\ IF Exceeds(optimizedSlots)
       THEN /\ optimizedSlots' = SetQuantity(optimizedSlots, Head(queue),
                                     At(optimizedSlots, Head(queue)).quantity - 1)
            /\ Are64StackablesAtThreshold' = TRUE
            /\ pc' = "s4"
       ELSE /\ pc' = "s3_loop"
            /\ UNCHANGED <<optimizedSlots, Are64StackablesAtThreshold>>
    /\ UNCHANGED <<callVars, classVars, AreUnstackablesAtThreshold,
                   Are16StackablesAtThreshold, scanVars, queue>>

Strategy3Next ==
    /\ pc = "s3_loop"
    /\ queue # << >>
    /\ ~(At(optimizedSlots, Head(queue)).quantity < 64)
    /\ queue' = Tail(queue)
    /\ UNCHANGED <<callVars, optimizedSlots, classVars, flagVars, scanVars, pc>>

Strategy3Exhausted ==
    /\ pc = "s3_loop"
    /\ queue = << >>
    /\ pc' = "s4"
    /\ UNCHANGED <<callVars, optimizedSlots, classVars, flagVars, scanVars, queue>>

(***************************************************************************)
(* Strategy 4: duplicate a candidate into the empty slots.                 *)
(***************************************************************************)

\* The condition of the outer if.
SomeClassBelowThreshold ==
    \/ (~AreUnstackablesAtThreshold /\ hasUnstackable)
    \/ (~Are16StackablesAtThreshold /\ hasSixteen)
    \/ (~Are64StackablesAtThreshold /\ hasSixtyFour)

allMaxed(s) ==
    ~\E i \in Occupied(s) :
        At(s, i).forceAdjusted = "true" /\ At(s, i).quantity < At(s, i).stack_size

\* The callback of forcedItems.reduce: item replaces acc
TakesOverDuplicate(item, acc) ==
    /\ item.stack_size >= acc.stack_size
    /\ getRarityOrder(item.rarity) < getRarityOrder(acc.rarity)

NextDuplicate(s, list, pos) ==
    LET later == {k \in (pos + 1) .. Len(list) :
                    TakesOverDuplicate(At(s, list[k]), At(s, list[pos]))}
    IN  IF later = {} THEN 0 ELSE CHOOSE k \in later : \A j \in later : k <= j

\* forcedItems.reduce(...) with no initial value, from the accumulator
\* list[pos] on, followed from one replacement to the next.
RECURSIVE ReduceDuplicate(_, _, _)
ReduceDuplicate(s, list, pos) ==
    IF NextDuplicate(s, list, pos) = 0 THEN list[pos]
    ELSE ReduceDuplicate(s, list, NextDuplicate(s, list, pos))

itemToDuplicate(s, forced) == ReduceDuplicate(s, forced, 1)

StackableCopy(item) ==
    [item EXCEPT !.originalIndex = Synthesized, !.forceAdjusted = "true"]

Strategy4Skip ==
    /\ pc = "s4"
    /\ ~(/\ ~hasQuantityAdjustments
         /\ SomeClassBelowThreshold
         /\ allMaxed(optimizedSlots))
    /\ pc' = "s5"
    /\ UNCHANGED <<callVars, optimizedSlots, classVars, flagVars, scanVars, queue>>

Strategy4Target ==
    /\ pc = "s4"
    /\ ~hasQuantityAdjustments
    /\ SomeClassBelowThreshold
    /\ allMaxed(optimizedSlots)
    /\ target' = itemToDuplicate(optimizedSlots, forcedItems)
    /\ cursor' = 1
    /\ pc' = "s4_scan"
    /\ UNCHANGED <<callVars, optimizedSlots, classVars, flagVars, queue>>

Strategy4Place ==
    /\ pc = "s4_scan"
    /\ NextEmpty(optimizedSlots, cursor) # -1
    /\ LET i == NextEmpty(optimizedSlots, cursor)
       IN  /\ optimizedSlots' =
                Put(optimizedSlots, i, StackableCopy(At(optimizedSlots, target)))
           /\ cursor' = i
    /\ pc' = "s4_judge"
    /\ UNCHANGED <<callVars, classVars, flagVars, target, queue>>

\* Mutant of Strategy4Judge: the copy that made the score rise is removed, as
\* in Strategy 1.
Strategy4JudgeRemoving ==
    /\ pc = "s4_judge"
    /\ IF Exceeds(optimizedSlots)
       THEN /\ optimizedSlots' = Put(optimizedSlots, cursor, Null)
            /\ cursor' = cursor
            /\ pc' = "s5"
       ELSE /\ cursor' = cursor + 1
            /\ pc' = "s4_scan"
            /\ UNCHANGED optimizedSlots
    /\ UNCHANGED <<callVars, classVars, flagVars, target, queue>>

Strategy4Judge ==
    /\ pc = "s4_judge"
    /\ IF Exceeds(optimizedSlots)
       THEN /\ optimizedSlots' = SetQuantity(optimizedSlots, cursor, 1)
            /\ cursor' = cursor
            /\ pc' = "s5"
       ELSE /\ cursor' = cursor + 1
            /\ pc' = "s4_scan"
            /\ UNCHANGED optimizedSlots
    /\ UNCHANGED <<callVars, classVars, flagVars, target, queue>>

Strategy4Exhausted ==
    /\ pc = "s4_scan"
    /\ NextEmpty(optimizedSlots, cursor) = -1
    /\ pc' = "s5"
    /\ UNCHANGED <<callVars, optimizedSlots, classVars, flagVars, scanVars, queue>>

(***************************************************************************)
(* Strategy 5: the final increment pass over every candidate below its     *)
(* stack size, from the end of the array.                                  *)
(***************************************************************************)

\* Mutant of BelowStackFromEnd: the slots made by duplication are left out.
BelowStackOriginalsFromEnd(s) ==
    Reverse(SelectSeq(IndexSeq(s),
                      LAMBDA i : /\ At(s, i) # Null
                                 /\ At(s, i).forceAdjusted = "true"
                                 /\ At(s, i).originalIndex # Synthesized
                                 /\ At(s, i).quantity < At(s, i).stack_size))

BelowStackFromEnd(s) ==
    Reverse(SelectSeq(IndexSeq(s),
                      LAMBDA i : /\ At(s, i) # Null
                                 /\ At(s, i).forceAdjusted = "true"
                                 /\ At(s, i).quantity < At(s, i).stack_size))

Strategy5Enter ==
    /\ pc = "s5"
    /\ queue' = BelowStackFromEnd(optimizedSlots)
    /\ pc' = "s5_loop"
    /\ UNCHANGED <<callVars, optimizedSlots, classVars, flagVars, scanVars>>

\* item.quantity++ under while (item.quantity < item.stack_size)
Strategy5Increment ==
    /\ pc = "s5_loop"
    /\ queue # << >>
    /\ At(optimizedSlots, Head(queue)).quantity < At(optimizedSlots, Head(queue)).stack_size
    /\ optimizedSlots' = SetQuantity(optimizedSlots, Head(queue),
                                     At(optimizedSlots, Head(queue)).quantity + 1)
    /\ pc' = "s5_judge"
    /\ UNCHANGED <<callVars, classVars, flagVars, scanVars, queue>>

Strategy5Judge ==
    /\ pc = "s5_judge"
    /\ IF Exceeds(optimizedSlots)
       THEN /\ optimizedSlots' = SetQuantity(optimizedSlots, Head(queue),
                                     At(optimizedSlots, Head(queue)).quantity - 1)
            /\ pc' = "refinalize"
       ELSE /\ pc' = "s5_loop"
            /\ UNCHANGED optimizedSlots
    /\ UNCHANGED <<callVars, classVars, flagVars, scanVars, queue>>

Strategy5Next ==
    /\ pc = "s5_loop"
    /\ queue # << >>
    /\ ~(At(optimizedSlots, Head(queue)).quantity < At(optimizedSlots, Head(queue)).stack_size)
    /\ queue' = Tail(queue)
    /\ UNCHANGED <<callVars, optimizedSlots, classVars, flagVars, scanVars, pc>>

Strategy5Exhausted ==
    /\ pc = "s5_loop"
    /\ queue = << >>
    /\ pc' = "refinalize"
    /\ UNCHANGED <<callVars, optimizedSlots, classVars, flagVars, scanVars, queue>>

(***************************************************************************)
(* Re-finalization of the flags, partition and layout.                     *)
(***************************************************************************)

\* Mutant of Refinalize: the flags of the classification are kept.
RefinalizeKeeping ==
    /\ pc = "refinalize"
    /\ pc' = "layout"
    /\ UNCHANGED <<callVars, optimizedSlots, classVars, flagVars, scanVars, queue>>

Refinalize ==
    /\ pc = "refinalize"
    /\ optimizedSlots' = MarkAdjusted(optimizedSlots)
    /\ pc' = "layout"
    /\ UNCHANGED <<callVars, classVars, flagVars, scanVars, queue>>

\* withoutNulls.forEach((item) => (item.isAdjusted = item.forceAdjusted === true))
WithIsAdjusted(items) ==
    [k \in 1 .. Len(items) |->
        [items[k] EXCEPT !.isAdjusted = Flag(items[k].forceAdjusted = "true")]]

\* Mutant of Compare: the quantities compared the other way round.
CompareQuantityDescending(a, b) ==
    IF a.stack_size # b.stack_size THEN a.stack_size - b.stack_size
    ELSE b.quantity - a.quantity

\* The comparator of adjusted.sort: negative when a goes before b.
Compare(a, b) ==
    IF a.stack_size # b.stack_size THEN a.stack_size - b.stack_size
    ELSE a.quantity - b.quantity

\* How many elements a stable sort puts before items[k]: the smaller ones,
\* and the equal ones that come earlier.
SortRank(items, k) ==
    Cardinality({j \in 1 .. Len(items) :
                    \/ Compare(items[j], items[k]) < 0
                    \/ (Compare(items[j], items[k]) = 0 /\ j < k)})

\* Array.prototype.sort with Compare: a stable sort.
SortAdjusted(items) ==
    [r \in 1 .. Len(items) |->
        items[CHOOSE k \in 1 .. Len(items) : SortRank(items, k) = r - 1]]

Nulls(n) == [k \in 1 .. n |-> Null]

AdjustedOf(s) ==
    SelectSeq(WithIsAdjusted(WithoutNulls(s)), LAMBDA x : x.forceAdjusted = "true")

UnadjustedOf(s) ==
    SelectSeq(WithIsAdjusted(WithoutNulls(s)), LAMBDA x : x.forceAdjusted # "true")

\* Mutant of nullsNeeded: padding to 54 slots after the reserved one.
nullsNeededOffByOne(s) == invSize - Len(UnadjustedOf(s)) - Len(AdjustedOf(s))

nullsNeeded(s) == 53 - Len(UnadjustedOf(s)) - Len(AdjustedOf(s))

\* Mutant of LaidOut: the unadjusted group is left out of the array.
LaidOutAdjustedOnly(s) ==
    <<Null>> \o Nulls(nullsNeeded(s) + Len(UnadjustedOf(s))) \o SortAdjusted(AdjustedOf(s))

\* [null, ...unadjusted, ...Array(nullsNeeded).fill(null), ...adjusted]
LaidOut(s) ==
    <<Null>> \o UnadjustedOf(s) \o Nulls(nullsNeeded(s)) \o SortAdjusted(AdjustedOf(s))

\* The locals of a call that has ended.
NoLocals ==
    /\ optimizedSlots' = << >>
    /\ currentSignal' = 0
    /\ hasQuantityAdjustments' = FALSE
    /\ forcedItems' = << >>
    /\ AreUnstackablesAtThreshold' = FALSE
    /\ Are16StackablesAtThreshold' = FALSE
    /\ Are64StackablesAtThreshold' = FALSE
    /\ target' = 0
    /\ cursor' = 0
    /\ queue' = << >>

Layout ==
    /\ pc = "layout"
    /\ nullsNeeded(optimizedSlots) >= 0
    /\ result' = LaidOut(optimizedSlots)
    /\ pc' = "returned"
    /\ NoLocals
    /\ UNCHANGED <<given, firstResult, input, call, signalVars>>

\* Array(nullsNeeded) with a negative length throws a RangeError.
LayoutThrows ==
    /\ pc = "layout"
    /\ nullsNeeded(optimizedSlots) < 0
    /\ pc' = "threw"
    /\ NoLocals
    /\ UNCHANGED <<callVars>>

(***************************************************************************)
(* The callers: the test suite's testSignals, which scores a container,    *)
(* optimizes it, scores the result and scores it again with one more unit  *)
(* in slot 0; its idempotence test, which passes the result to             *)
(* optimizeForRedstone a second time; and the application's render, which  *)
(* optimizes and scores the slots of a cell each time it runs.             *)
(***************************************************************************)

\* const previousSignal = calculateSignalStrength(slots);
ScoreInput ==
    /\ pc = "test"
    /\ previousSignal' = calculateSignalStrength(input)
    /\ pc' = "call"
    /\ UNCHANGED <<given, firstResult, input, call, result, optimizedSignal,
                   optimizedSignalPlus1, optimizedSlots, classVars, flagVars,
                   scanVars, queue>>

\* const optimizedSignal = calculateSignalStrength(optimizedSlots);
ScoreOutput ==
    /\ pc = "returned"
    /\ call = 1
    /\ optimizedSignal' = calculateSignalStrength(result)
    /\ firstResult' = result
    /\ pc' = "scored"
    /\ UNCHANGED <<given, input, call, result, previousSignal,
                   optimizedSignalPlus1, optimizedSlots, classVars, flagVars,
                   scanVars, queue>>

\* The reduce of testSignals: the first occupied slot of the largest stack size.
largestStackSizeItem(s) ==
    LET best == {i \in Occupied(s) :
                    \A j \in Occupied(s) : At(s, j).stack_size <= At(s, i).stack_size}
    IN  At(s, CHOOSE i \in best : \A j \in best : i <= j)

\* optimizedSlots[0] = { ...largestStackSizeItem, quantity: 1 }
WithOneMore(s) == Put(s, 0, [largestStackSizeItem(s) EXCEPT !.quantity = 1])

AddOne ==
    /\ pc = "scored"
    /\ Occupied(result) # {}
    /\ optimizedSignalPlus1' = calculateSignalStrength(WithOneMore(result))
    /\ pc' = "measured"
    /\ UNCHANGED <<given, firstResult, input, call, result, previousSignal,
                   optimizedSignal, optimizedSlots, classVars, flagVars, scanVars, queue>>

\* expect(optimizeForRedstone(optimizedSlots)).toStrictEqual(optimizedSlots)
Reoptimize ==
    /\ call = 1
    /\ pc = "measured" \/ (pc = "scored" /\ Occupied(result) = {})
    /\ input' = result
    /\ result' = << >>
    /\ call' = 2
    /\ pc' = "call"
    /\ UNCHANGED <<given, firstResult, signalVars, optimizedSlots, classVars,
                   flagVars, scanVars, queue>>

\* The next render of the same cell: cell.slots is scored and optimized once
\* more, after the calls that were made on other containers.
Recall ==
    /\ call = 2
    /\ pc = "returned"
    /\ previousSignal' = calculateSignalStrength(given)
    /\ input' = given
    /\ result' = << >>
    /\ call' = 3
    /\ pc' = "call"
    /\ UNCHANGED <<given, firstResult, optimizedSignal, optimizedSignalPlus1,
                   optimizedSlots, classVars, flagVars, scanVars, queue>>

(***************************************************************************)
(* The containers the calls are made on.                                   *)
(***************************************************************************)

\* How many leading usable slots of a container are drawn slot by slot.
MaxHead == 3

Unstackable == NewSlot("sword", 1, "", 1)
Unstackable2 == NewSlot("totem", 1, "uncommon", 1)
Stackable16 == NewSlot("pearl", 16, "", 1)
Stackable64 == NewSlot("stone", 64, "", 1)

WithQuantity(item, q) == [item EXCEPT !.quantity = q]

Copies(n, item) == [k \in 1 .. n |-> item]

\* [null, ...Array(n).fill(item), ...Array(53 - n).fill(null)]
Filled(n, item) == <<Null>> \o Copies(n, item) \o Nulls(53 - n)

\* The containers of the suite's threshold tests, and the empty container.
UniformInputs ==
    {Filled(n, item) : n \in 0 .. 53, item \in {Unstackable, Stackable16, Stackable64}}

\* What one drawn slot may hold.
SlotChoices ==
    {Null, Unstackable, Unstackable2, Stackable16, Stackable64,
     WithQuantity(Stackable64, 2)}

RECURSIVE Heads(_)
Heads(n) ==
    IF n = 0 THEN {<< >>}
    ELSE {<<x>> \o h : x \in SlotChoices, h \in Heads(n - 1)}

\* Slots 1 .. MaxHead drawn freely, the rest empty.
HeadInputs == {<<Null>> \o h \o Nulls(53 - MaxHead) : h \in Heads(MaxHead)}

\* Two runs of equal slots, one after the other: mixed stack classes, full
\* and partly filled stacks, at low and at high fill.
BlockChoices ==
    {Unstackable, WithQuantity(Stackable16, 5), WithQuantity(Stackable16, 16),
     Stackable64, WithQuantity(Stackable64, 64)}

BlockLengths == {1, 26}

BlockInputs ==
    {<<Null>> \o Copies(n, a) \o Copies(m, b) \o Nulls(53 - n - m) :
        a \in BlockChoices, b \in BlockChoices,
        n \in BlockLengths, m \in BlockLengths}

\* Two single items in front of a run of partly filled stacks.
MixedInputs ==
    {<<Null, a, b>> \o Copies(26, WithQuantity(Stackable16, 5)) \o Nulls(25) :
        a \in {Unstackable, Unstackable2}, b \in {Unstackable, Unstackable2}}

\* Array(n).fill(unstackableItem), the arrays of the suite's scorer test:
\* n slots, all occupied.
PackedInputs == {Copies(n, Unstackable) : n \in 0 .. 54}

\* Containers that break a precondition: slot 0 occupied, or a quantity that
\* is unset, 0 or above the stack size.
ReservedInputs ==
    {Put(Filled(n, a), 0, b) :
        n \in {0, 1, 53}, a \in {Unstackable, Stackable64},
        b \in {Unstackable, Stackable16, Stackable64}}

OddQuantities(item) == {Unset, 0, item.stack_size + 1}

\* A catalogue entry whose stack_size is missing, 0 or above 64.
OddStackInputs ==
    {Put(Filled(0, Unstackable), 1, NewSlot("bundle", size, "", q)) :
        size \in {Unset, 0, 128}, q \in {Unset, 3}}

OddQuantityInputs ==
    UNION {{Put(Filled(n, Stackable64), 1, WithQuantity(item, q)) :
                n \in {0, 2}, q \in OddQuantities(item)} :
           item \in {Unstackable, Stackable16, Stackable64}}

\* Containers of an import whose counts are above the stack size.
OverfullInputs == {Filled(n, WithQuantity(Unstackable, 2)) : n \in {26, 27}}

Inputs ==
    UniformInputs \cup HeadInputs \cup BlockInputs \cup MixedInputs
        \cup PackedInputs
        \cup ReservedInputs \cup OddQuantityInputs \cup OddStackInputs
        \cup OverfullInputs

\* Length 54, slot 0 empty, every stack size 1, 16 or 64 and every quantity
\* from 1 to the stack size.
WellFormed(c) ==
    /\ Len(c) = invSize
    /\ At(c, 0) = Null
    /\ \A i \in Occupied(c) :
        /\ At(c, i).stack_size \in {1, 16, 64}
        /\ At(c, i).quantity \in 1 .. At(c, i).stack_size

Init ==
    /\ given \in Inputs
    /\ input = given
    /\ previousSignal = 0
    /\ optimizedSignal = 0
    /\ optimizedSignalPlus1 = 0
    /\ optimizedSlots = << >>
    /\ currentSignal = 0
    /\ hasQuantityAdjustments = FALSE
    /\ forcedItems = << >>
    /\ AreUnstackablesAtThreshold = FALSE
    /\ Are16StackablesAtThreshold = FALSE
    /\ Are64StackablesAtThreshold = FALSE
    /\ target = 0
    /\ cursor = 0
    /\ queue = << >>
    /\ pc = "test"
    /\ call = 1
    /\ result = << >>
    /\ firstResult = << >>

Next ==
    \/ ScoreInput \/ ReturnEmpty \/ Normalize \/ Classify
    \/ Strategy1Skip \/ Strategy1Target \/ Strategy1Place \/ Strategy1Judge
    \/ Strategy1Exhausted
    \/ Strategy2Skip \/ Strategy2Enter \/ Strategy2Increment \/ Strategy2Judge
    \/ Strategy2Next \/ Strategy2Exhausted
    \/ Strategy3Skip \/ Strategy3Enter \/ Strategy3Increment \/ Strategy3Judge
    \/ Strategy3Next \/ Strategy3Exhausted
    \/ Strategy4Skip \/ Strategy4Target \/ Strategy4Place \/ Strategy4Judge
    \/ Strategy4Exhausted
    \/ Strategy5Enter \/ Strategy5Increment \/ Strategy5Judge \/ Strategy5Next
    \/ Strategy5Exhausted
    \/ Refinalize \/ Layout \/ LayoutThrows
    \/ ScoreOutput \/ AddOne \/ Reoptimize \/ Recall

Spec == Init /\ [][Next]_vars

(***************************************************************************)
(* Properties.                                                             *)
(***************************************************************************)

Count(s) == Cardinality(Occupied(s))

\* The call in progress has returned a container.
Returned == pc = "returned"

SynthesizedIn(s) == {i \in Occupied(s) : At(s, i).originalIndex = Synthesized}

RaisedIn(s) == {i \in Occupied(s) : At(s, i).quantity > 1}

\* C1: for every well-formed container c, the score of optimizeForRedstone(c)
\* equals the score of c.
ScorePreserved ==
    (Returned /\ WellFormed(input))
        => calculateSignalStrength(result) = calculateSignalStrength(input)

\* A call on a container of quantity-1 slots has returned one with the same
\* score that holds duplicates and raised quantities.
ScorePreservedWitness ==
    /\ Returned /\ call = 1 /\ WellFormed(given)
    /\ RaisedIn(given) = {}
    /\ SynthesizedIn(result) # {} /\ RaisedIn(result) # {}
    /\ calculateSignalStrength(result) = calculateSignalStrength(given)

\* C2: for every well-formed container c, optimizing optimizeForRedstone(c)
\* again returns it unchanged, slot by slot and field by field.
Idempotent ==
    (Returned /\ call = 2 /\ WellFormed(given)) => result = input

\* The second call has returned what it was given, and the first call had
\* changed its container by duplication and by raising quantities.
IdempotentWitness ==
    /\ Returned /\ call = 2 /\ WellFormed(given)
    /\ result = input
    /\ SynthesizedIn(input) # {} /\ RaisedIn(input) # {} /\ RaisedIn(given) = {}

\* C3: for the containers of n equal quantity-1 slots of one stack class,
\* n in 1 .. 53, one unit of the occupied item of the largest stack size put
\* into slot 0 of the optimized container raises its score by exactly one.
UniformAtThreshold ==
    (pc = "measured" /\ given \in UniformInputs)
        => optimizedSignalPlus1 = optimizedSignal + 1

\* The container of one 16-stackable has been optimized by duplication and
\* measured one step below the next signal strength.
UniformAtThresholdWitness ==
    /\ pc = "measured"
    /\ given = Filled(1, Stackable16)
    /\ SynthesizedIn(result) # {}
    /\ optimizedSignalPlus1 = optimizedSignal + 1

AdjustedIn(s) == {i \in Occupied(s) : At(s, i).isAdjusted = "true"}

UnadjustedIn(s) == {i \in Occupied(s) : At(s, i).isAdjusted # "true"}

\* The first adjusted slot of the largest stack size.
LargestAdjusted(s) ==
    LET best == {i \in AdjustedIn(s) :
                    \A j \in AdjustedIn(s) : At(s, j).stack_size <= At(s, i).stack_size}
    IN  At(s, CHOOSE i \in best : \A j \in best : i <= j)

\* C4: for every well-formed non-empty container, whatever its quantities and
\* stack classes, one more unit of the adjusted item of the largest stack
\* size raises the score of the optimized container by exactly one.
EveryContainerAtThreshold ==
    (Returned /\ call = 1 /\ WellFormed(given) /\ Occupied(given) # {}
        /\ AdjustedIn(result) # {})
        => calculateSignalStrength(
                Put(result, 0, [LargestAdjusted(result) EXCEPT !.quantity = 1]))
            = calculateSignalStrength(result) + 1

\* The claim's own reading of one slot: quantity 1 when unset or 0, limit 64
\* when the stack size is unset, 0 or above 64.
ClaimedQuantity(x) == IF x.quantity \in {Unset, 0} THEN 1 ELSE x.quantity

ClaimedLimit(x) ==
    IF x.stack_size \in {Unset, 0} \/ x.stack_size > 64 THEN 64 ELSE x.stack_size

\* The sum of quantity / limit in sixty-fourths, counted unit by unit.
ClaimedFill64(s) ==
    Cardinality(UNION {{<<i, u>> : u \in 1 .. (ClaimedQuantity(At(s, i))
                                                * (64 \div ClaimedLimit(At(s, i))))} :
                       i \in Occupied(s)})

\* r = floor((14 / 54) * S + 1)
IsFloorOfFill(r, s) ==
    /\ (r - 1) * 54 * 64 <= 14 * ClaimedFill64(s)
    /\ 14 * ClaimedFill64(s) < r * 54 * 64

\* The boundary table: n unstackables of quantity 1 -> score.
ScorerTable ==
    {<<0, 0>>, <<1, 1>>, <<2, 1>>, <<3, 1>>, <<4, 2>>, <<50, 13>>, <<51, 14>>,
     <<52, 14>>, <<53, 14>>, <<54, 15>>}

\* C5: the score is 0 for no occupied slot and floor((14/54) * S + 1)
\* otherwise, S the sum of quantity / limit with the defaults for unset and 0;
\* n unstackables score as the boundary table says.
ScoreIsFloorOfFill ==
    (pc = "call" /\ call = 1)
        => /\ IF Occupied(given) = {} THEN previousSignal = 0
              ELSE IsFloorOfFill(previousSignal, given)
           /\ \A row \in ScorerTable :
                given = Copies(row[1], Unstackable) => previousSignal = row[2]

\* The scorer has returned 14 for the array of 51 unstackables.
ScoreIsFloorOfFillWitness ==
    /\ pc = "call" /\ call = 1
    /\ given = Copies(51, Unstackable)
    /\ previousSignal = 14

\* At most 54 slots, each occupied one of stack size 1, 16 or 64 with a
\* quantity from 1 to its stack size.
InLimits(s) ==
    /\ Len(s) <= 54
    /\ \A i \in Occupied(s) :
        /\ At(s, i).stack_size \in {1, 16, 64}
        /\ At(s, i).quantity \in 1 .. At(s, i).stack_size

\* C6: on every sequence of at most 54 slots with quantities within the stack
\* limits, the score is an integer from 0 to 15.
ScoreInRange ==
    /\ (pc = "call" /\ call = 1 /\ InLimits(given)) => previousSignal \in 0 .. 15
    /\ (pc \in {"s1_judge", "s2_judge", "s3_judge", "s4_judge", "s5_judge"}
            /\ InLimits(optimizedSlots))
        => calculateSignalStrength(optimizedSlots) \in 0 .. 15

\* The scorer has returned 15, for 54 occupied slots within their limits.
ScoreInRangeWitness ==
    /\ pc = "call" /\ call = 1 /\ InLimits(given)
    /\ Count(given) = 54
    /\ previousSignal = 15

\* C7: on a container with no occupied slot optimizeForRedstone returns its
\* argument unchanged, and the score of that is 0.
EmptyUnchanged ==
    (call = 1 /\ Occupied(given) = {})
        => /\ pc = "returned" => result = given
           /\ pc = "scored" => (result = given /\ optimizedSignal = 0)

\* The container of 54 empty slots has come back unchanged and scored 0.
EmptyUnchangedWitness ==
    /\ pc = "scored" /\ call = 1
    /\ given = Nulls(54)
    /\ result = given /\ optimizedSignal = 0

\* C8: slot 0 of every returned container is empty, and no duplication step
\* places an item in slot 0.
SlotZeroEmpty ==
    /\ (pc \in {"returned", "scored", "measured"} /\ Len(result) > 0)
        => At(result, 0) = Null
    /\ pc \in {"s1_judge", "s4_judge"}
        => /\ cursor >= 1
           /\ At(optimizedSlots, 0).id = At(input, 0).id

\* A container whose slot 0 was occupied has been optimized by duplication,
\* and slot 0 of the result is empty.
SlotZeroEmptyWitness ==
    /\ Returned /\ call = 1
    /\ Len(given) = 54 /\ At(given, 0) # Null
    /\ SynthesizedIn(result) # {}
    /\ At(result, 0) = Null

\* C9: the container returned for a well-formed container has exactly 54
\* slots, so at most 53 occupied ones, whatever was duplicated.
FiftyFourSlots ==
    (Returned /\ WellFormed(input))
        => (Len(result) = 54 /\ Count(result) <= 53)

\* Duplication has filled a well-formed container up to 53 occupied slots.
FiftyFourSlotsWitness ==
    /\ Returned /\ call = 1 /\ WellFormed(given)
    /\ Count(result) > Count(given)
    /\ Count(result) = 53 /\ Len(result) = 54

\* The index in s of the one slot that holds this identifier.
IndexOfId(s, id) == CHOOSE i \in Occupied(s) : At(s, i).id = id

\* a goes before b in (stack size, quantity) order, or ties with it.
InSortOrder(a, b) ==
    \/ a.stack_size < b.stack_size
    \/ (a.stack_size = b.stack_size /\ a.quantity <= b.quantity)

\* C10: the returned container is slot 0 empty, the unadjusted items in the
\* order they had in the argument, empty slots, and the adjusted items at the
\* highest indices in (stack size, quantity) order.
LayoutOrdered ==
    (Returned /\ Occupied(input) # {})
        => LET u == Cardinality(UnadjustedIn(result))
               a == Cardinality(AdjustedIn(result))
           IN  /\ At(result, 0) = Null
               /\ UnadjustedIn(result) = 1 .. u
               /\ AdjustedIn(result) = (54 - a) .. 53
               /\ \A i \in (u + 1) .. (53 - a) : At(result, i) = Null
               /\ \A i \in 1 .. u : \A j \in 1 .. u :
                    i < j => IndexOfId(input, At(result, i).id)
                                < IndexOfId(input, At(result, j).id)
               /\ \A i \in (54 - a) .. 52 :
                    InSortOrder(At(result, i), At(result, i + 1))

\* Two unadjusted items have kept their order at the front and adjusted items
\* of different quantities sit sorted at the end, with empty slots between.
LayoutOrderedWitness ==
    /\ Returned /\ call = 1 /\ WellFormed(given)
    /\ Cardinality(UnadjustedIn(result)) >= 2
    /\ \E i \in AdjustedIn(result) : \E j \in AdjustedIn(result) :
            At(result, i).quantity < At(result, j).quantity
    /\ At(result, 10) = Null


\* The positions at which the working array of a call exists.
Working ==
    pc \in {"classify", "s1", "s1_scan", "s1_judge", "s2", "s2_loop", "s2_judge",
            "s3", "s3_loop", "s3_judge", "s4", "s4_scan", "s4_judge",
            "s5", "s5_loop", "s5_judge", "refinalize", "layout"}

\* Every occupied slot holds from 1 to its stack size.
WithinStacks(s) ==
    \A i \in Occupied(s) : At(s, i).quantity \in 1 .. At(s, i).stack_size

\* C11: for a well-formed argument, every occupied slot of the working array,
\* after each increment, undo, placement and removal, and of the returned
\* container holds a quantity from 1 to its item's stack size.
QuantitiesWithinStacks ==
    WellFormed(input)
        => /\ Working => WithinStacks(optimizedSlots)
           /\ Returned => WithinStacks(result)

\* An increment of Strategy 3 has probed the stack limit itself: the slot it
\* raised holds 64 and the score has not been judged yet.
QuantitiesWithinStacksWitness ==
    /\ pc = "s3_judge" /\ WellFormed(input)
    /\ At(optimizedSlots, Head(queue)).quantity = 64
    /\ ~Exceeds(optimizedSlots)


\* C12: no step of optimizeForRedstone, whichever strategy takes it, changes
\* the argument: its slots, their positions, quantities and annotation fields
\* are after the call what they were before it.
ArgumentUntouched ==
    [][(pc = "call" \/ Working) => input' = input]_vars

\* A call that duplicated and incremented has returned something other than
\* its argument, and the argument is still the container the caller built.
ArgumentUntouchedWitness ==
    /\ Returned /\ call = 1
    /\ input = given
    /\ result # input
    /\ SynthesizedIn(result) # {} /\ RaisedIn(result) # {}
    /\ \A i \in Occupied(input) : At(input, i).originalIndex = Unset


Phase ==
    CASE pc = "call" -> 14
      [] pc = "classify" -> 13
      [] pc = "s1" -> 12
      [] pc \in {"s1_scan", "s1_judge"} -> 11
      [] pc = "s2" -> 10
      [] pc \in {"s2_loop", "s2_judge"} -> 9
      [] pc = "s3" -> 8
      [] pc \in {"s3_loop", "s3_judge"} -> 7
      [] pc = "s4" -> 6
      [] pc \in {"s4_scan", "s4_judge"} -> 5
      [] pc = "s5" -> 4
      [] pc \in {"s5_loop", "s5_judge"} -> 3
      [] pc = "refinalize" -> 2
      [] pc = "layout" -> 1
      [] OTHER -> 0

\* The empty slots an empty-slot scan still has before it.
EmptyAhead ==
    Cardinality({i \in Indices(optimizedSlots) :
                    i >= cursor /\ i >= 1 /\ At(optimizedSlots, i) = Null})

\* The increments and the moves to the next candidate an increment loop still
\* has before it, over the first k candidates it has left.
RECURSIVE RoomOver(_)
RoomOver(k) ==
    IF k = 0 THEN 0
    ELSE LET item == At(optimizedSlots, queue[k])
         IN  RoomOver(k - 1) + 1
                + (IF item.quantity < item.stack_size
                   THEN item.stack_size - item.quantity ELSE 0)

\* A natural number that every step of a call lowers.
Rank ==
    10000 * Phase
        + (CASE pc = "s1_scan" \/ pc = "s4_scan" -> 2 * EmptyAhead + 1
             [] pc = "s1_judge" \/ pc = "s4_judge" -> 2 * EmptyAhead + 2
             [] pc \in {"s2_loop", "s3_loop", "s5_loop"} -> 2 * RoomOver(Len(queue)) + 1
             [] pc \in {"s2_judge", "s3_judge", "s5_judge"} -> 2 * RoomOver(Len(queue)) + 2
             [] OTHER -> 0)

\* C14: on a well-formed argument optimizeForRedstone never throws and always
\* returns, also when duplication runs out of empty slots before the score
\* rises and when every candidate is at its stack size.  Every position of
\* the call has a step (each branch has its else, each loop its exit), no step
\* leads to the throw, and every step lowers a rank that stays a natural
\* number, so the call reaches its return.
Terminates ==
    /\ [](WellFormed(input) => (pc # "threw" /\ Rank >= 0))
    /\ [][((pc = "call" \/ Working) /\ WellFormed(input)) => Rank' < Rank]_vars

\* Strategy 1 has filled the last empty slot of a well-formed container and the
\* score has not risen: the scan finds no slot left.
TerminatesWitness ==
    /\ pc = "s1_scan" /\ call = 1 /\ WellFormed(input)
    /\ NextEmpty(optimizedSlots, cursor) = -1
    /\ SynthesizedIn(optimizedSlots) # {}
    /\ Count(optimizedSlots) = 53
    /\ ~AreUnstackablesAtThreshold


ByRule(s) ==
    {i \in Occupied(s) :
        \/ At(s, i).quantity > 1
        \/ \E j \in Occupied(s) : j # i /\ At(s, j).id = At(s, i).id}

\* The candidates the classification has marked.
Candidates(s) == {i \in Occupied(s) : At(s, i).forceAdjusted = "true"}

\* C16: the candidates are the slots of quantity above 1 or of a repeated
\* identifier whenever there is such a slot, and every occupied slot only
\* when there is none.
CandidatesByRule ==
    pc = "s1"
        => Candidates(optimizedSlots)
            = IF ByRule(optimizedSlots) # {} THEN ByRule(optimizedSlots)
              ELSE Occupied(optimizedSlots)

\* C16, as the code has it: the candidates are the slots of quantity above 1
\* or of a repeated identifier whenever some quantity is above 1, and every
\* occupied slot whenever no quantity is above 1, repeated identifiers or not.
CandidatesByQuantity ==
    pc = "s1"
        => /\ Candidates(optimizedSlots)
                = IF RaisedIn(optimizedSlots) # {} THEN ByRule(optimizedSlots)
                  ELSE Occupied(optimizedSlots)
           /\ forcedItems = ForcedIndices(optimizedSlots)
           /\ hasQuantityAdjustments = (RaisedIn(optimizedSlots) # {})

\* All quantities are 1 and one identifier is repeated: the slot of the
\* identifier that is not repeated is a candidate.
CandidatesByQuantityWitness ==
    /\ pc = "s1" /\ call = 1 /\ WellFormed(given)
    /\ RaisedIn(optimizedSlots) = {}
    /\ ByRule(optimizedSlots) # {}
    /\ Candidates(optimizedSlots) \ ByRule(optimizedSlots) # {}


\* C17: the candidate that gap-filling duplication clones has the largest
\* stack size of all candidates, and the lowest rarity rank of the candidates
\* of that stack size.
DuplicatesLargest ==
    (pc \in {"s4_scan", "s4_judge"} /\ WellFormed(input))
        => LET chosen == At(optimizedSlots, target)
           IN  \A k \in 1 .. Len(forcedItems) :
                LET other == At(optimizedSlots, forcedItems[k])
                IN  /\ other.stack_size <= chosen.stack_size
                    /\ other.stack_size = chosen.stack_size
                        => getRarityOrder(chosen.rarity) <= getRarityOrder(other.rarity)


\* C18: in the container returned for a container the caller built, a slot
\* has isDuplicate true exactly when the optimizer synthesized it, by either
\* duplication step.
DuplicatesFlagged ==
    (Returned /\ call = 1 /\ WellFormed(given))
        => \A i \in Occupied(result) :
            At(result, i).isDuplicate = (At(result, i).originalIndex = Synthesized)


\* One more unit in slot i would make the score exceed the reference score.
OneMoreExceeds(s, i, score) ==
    calculateSignalStrength(SetQuantity(s, i, At(s, i).quantity + 1)) > score

\* C19: after the final increment pass, and in the returned container, every
\* candidate is at its stack size or one more unit of it would make the score
\* exceed the score of the argument, whatever the mix of stack classes.
CandidatesTight ==
    /\ (pc = "refinalize" /\ WellFormed(input))
        => \A i \in Candidates(optimizedSlots) :
            \/ At(optimizedSlots, i).quantity = At(optimizedSlots, i).stack_size
            \/ OneMoreExceeds(optimizedSlots, i, currentSignal)
    /\ (Returned /\ WellFormed(input))
        => \A i \in Candidates(result) :
            \/ At(result, i).quantity = At(result, i).stack_size
            \/ OneMoreExceeds(result, i, calculateSignalStrength(input))


\* The final pass has ended on a mix: a 16-stackable candidate and a
\* 64-stackable candidate are both below their stack size, and one more unit
\* of either would make the score exceed.
CandidatesTightWitness ==
    /\ pc = "refinalize" /\ call = 1 /\ WellFormed(given)
    /\ \E i \in Candidates(optimizedSlots) :
        /\ At(optimizedSlots, i).stack_size = 16 /\ At(optimizedSlots, i).quantity < 16
        /\ OneMoreExceeds(optimizedSlots, i, currentSignal)
    /\ \E j \in Candidates(optimizedSlots) :
        /\ At(optimizedSlots, j).stack_size = 64 /\ At(optimizedSlots, j).quantity < 64
        /\ OneMoreExceeds(optimizedSlots, j, currentSignal)


\* A stack class that has a candidate and whose increments or duplication did
\* not end on the threshold.
SomeClassShort ==
    \E k \in 1 .. Len(forcedItems) :
        LET size == At(optimizedSlots, forcedItems[k]).stack_size
        IN  \/ size = 1 /\ ~AreUnstackablesAtThreshold
            \/ size = 16 /\ ~Are16StackablesAtThreshold
            \/ size = 64 /\ ~Are64StackablesAtThreshold

\* Strategy 4 puts a copy into the working array.
PlacesCopy == pc = "s4_scan" /\ pc' = "s4_judge"

\* Strategy 4 finds that the copy it placed made the score exceed.
CopyExceeds == pc = "s4_judge" /\ calculateSignalStrength(optimizedSlots) > currentSignal

\* C20: gap-filling duplication places a copy only when no quantity of the
\* argument is above 1, some stack class of the candidates did not reach the
\* threshold and every candidate is at its stack size; a copy is a full stack
\* put into one empty slot other than slot 0; the copy that makes the score
\* exceed is kept with quantity 1, the working array then scores what the
\* argument scores, and no copy is placed after it.
GapFilling ==
    [][/\ PlacesCopy
        => /\ RaisedIn(Normalized(input)) = {}
           /\ SomeClassShort
           /\ \A i \in Candidates(optimizedSlots) :
                At(optimizedSlots, i).quantity = At(optimizedSlots, i).stack_size
           /\ cursor' >= 1
           /\ At(optimizedSlots, cursor') = Null
           /\ At(optimizedSlots', cursor').quantity = At(optimizedSlots', cursor').stack_size
           /\ \A i \in Indices(optimizedSlots) :
                i # cursor' => At(optimizedSlots', i) = At(optimizedSlots, i)
       /\ CopyExceeds
        => /\ optimizedSlots' = SetQuantity(optimizedSlots, cursor, 1)
           /\ calculateSignalStrength(optimizedSlots')
                = calculateSignalStrength(Normalized(input))
           /\ pc' = "s5"
       /\ pc \in {"s5", "s5_loop", "s5_judge", "refinalize"}
        => Occupied(optimizedSlots') = Occupied(optimizedSlots)
      ]_vars

\* A full-stack copy has made the score exceed and has been cut to quantity 1:
\* the working array scores what the argument scores.
GapFillingWitness ==
    /\ pc = "s5" /\ call = 1 /\ WellFormed(given)
    /\ cursor >= 1 /\ cursor < Len(optimizedSlots)
    /\ At(optimizedSlots, cursor) # Null
    /\ At(optimizedSlots, cursor).originalIndex = Synthesized
    /\ At(optimizedSlots, cursor).stack_size > 1
    /\ At(optimizedSlots, cursor).quantity = 1
    /\ calculateSignalStrength(optimizedSlots) = currentSignal


\* The indices of the candidate unstackables, as the classification left them.
CandidateUnstackables ==
    {forcedItems[k] : k \in {n \in 1 .. Len(forcedItems) :
                                At(optimizedSlots, forcedItems[n]).stack_size = 1}}

\* Rarity rank as the claim reads it: common 0, uncommon 1, rare 2, epic 3,
\* anything else 0.
ClaimedRank(rarity) ==
    IF rarity = "uncommon" THEN 1
    ELSE IF rarity = "rare" THEN 2
    ELSE IF rarity = "epic" THEN 3
    ELSE 0

\* C21: unstackable duplication puts copies of quantity 1 of the candidate
\* unstackable of lowest rarity rank, the first in container order among
\* equals, into the empty slots in ascending order from index 1, one at a
\* time; the first copy that makes the score exceed the argument's score is
\* removed, the unstackable class is marked at threshold and the step ends.
UnstackableDuplication ==
    [][/\ (pc = "s1_scan" /\ pc' = "s1_judge")
        => /\ target \in CandidateUnstackables
           /\ \A i \in CandidateUnstackables :
                /\ ClaimedRank(At(optimizedSlots, target).rarity)
                        <= ClaimedRank(At(optimizedSlots, i).rarity)
                /\ ClaimedRank(At(optimizedSlots, target).rarity)
                        = ClaimedRank(At(optimizedSlots, i).rarity)
                    => target <= i
           /\ cursor' >= 1
           /\ At(optimizedSlots, cursor') = Null
           /\ \A i \in 1 .. (cursor' - 1) : At(optimizedSlots, i) # Null
           /\ At(optimizedSlots', cursor').id = At(optimizedSlots, target).id
           /\ At(optimizedSlots', cursor').stack_size = 1
           /\ At(optimizedSlots', cursor').rarity = At(optimizedSlots, target).rarity
           /\ At(optimizedSlots', cursor').quantity = 1
           /\ \A i \in Indices(optimizedSlots) :
                i # cursor' => At(optimizedSlots', i) = At(optimizedSlots, i)
       /\ pc = "s1_judge"
        => IF calculateSignalStrength(optimizedSlots) > calculateSignalStrength(input)
           THEN /\ optimizedSlots' = Put(optimizedSlots, cursor, Null)
                /\ AreUnstackablesAtThreshold'
                /\ pc' = "s2"
           ELSE /\ optimizedSlots' = optimizedSlots
                /\ AreUnstackablesAtThreshold' = AreUnstackablesAtThreshold
                /\ pc' = "s1_scan"
      ]_vars

\* Copies of the unstackable of lowest rank, which is not the first candidate
\* in the container, have been placed, and the one that made the score exceed
\* has been removed.
UnstackableDuplicationWitness ==
    /\ pc = "s2" /\ call = 1 /\ WellFormed(given)
    /\ AreUnstackablesAtThreshold
    /\ SynthesizedIn(optimizedSlots) # {}
    /\ At(optimizedSlots, cursor) = Null
    /\ \E i \in CandidateUnstackables :
        /\ i < target
        /\ ClaimedRank(At(optimizedSlots, i).rarity)
                > ClaimedRank(At(optimizedSlots, target).rarity)


\* The occupied slots of s that hold this identifier.
Holding(s, id) == {i \in Occupied(s) : At(s, i).id = id}

\* C22: when some quantity of the argument is above 1 the optimizer creates no
\* slot: the result holds as many items as the argument, identifier by
\* identifier and none of them synthesized by this call, and neither
\* duplication step is entered.
NoDuplicationWithQuantities ==
    RaisedIn(input) # {}
        => /\ pc \notin {"s1_scan", "s1_judge", "s4_scan", "s4_judge"}
           /\ Working => Occupied(optimizedSlots) = Occupied(input)
           /\ Returned =>
                /\ Count(result) = Count(input)
                /\ Cardinality(SynthesizedIn(result)) = Cardinality(SynthesizedIn(input))
                /\ \A i \in Occupied(input) :
                    /\ Cardinality(Holding(result, At(input, i).id))
                            = Cardinality(Holding(input, At(input, i).id))
                    /\ \A j \in Holding(result, At(input, i).id) :
                            At(result, j).stack_size = At(input, i).stack_size

\* A container with a quantity above 1, candidate unstackables and empty
\* slots has come back with the items it had and no other.
NoDuplicationWithQuantitiesWitness ==
    /\ Returned /\ call = 1 /\ WellFormed(given)
    /\ RaisedIn(given) # {}
    /\ \E i \in Occupied(result) :
            At(result, i).stack_size = 1 /\ At(result, i).isAdjusted = "true"
    /\ Count(result) = Count(given)
    /\ Count(result) < 53
    /\ SynthesizedIn(result) = {}


\* The step raises the quantity of slot i by one and changes no other slot.
RaisesOnly(i) ==
    optimizedSlots' = SetQuantity(optimizedSlots, i, At(optimizedSlots, i).quantity + 1)

\* The step lowers the quantity of slot i by one and changes no other slot.
LowersOnly(i) ==
    optimizedSlots' = SetQuantity(optimizedSlots, i, At(optimizedSlots, i).quantity - 1)

\* Slot i is a candidate of the class, and every candidate of the class at a
\* higher index holds its stack limit.
NextToFill(i, size) ==
    /\ i \in Candidates(optimizedSlots)
    /\ At(optimizedSlots, i).stack_size = size
    /\ At(optimizedSlots, i).quantity < size
    /\ \A j \in Candidates(optimizedSlots) :
        (j > i /\ At(optimizedSlots, j).stack_size = size)
            => At(optimizedSlots, j).quantity = size

\* One pass: its increments and what it does after each.
PassInOrder(loop, judge, after, size) ==
    /\ (pc = loop /\ pc' = judge)
        => \E i \in Occupied(optimizedSlots) :
            /\ At(optimizedSlots', i).quantity = At(optimizedSlots, i).quantity + 1
            /\ NextToFill(i, size)
            /\ RaisesOnly(i)
    /\ pc = judge
        => IF calculateSignalStrength(optimizedSlots) > calculateSignalStrength(input)
           THEN /\ LowersOnly(Head(queue))
                /\ At(optimizedSlots, Head(queue)).stack_size = size
                /\ pc' = after
           ELSE /\ optimizedSlots' = optimizedSlots
                /\ pc' = loop
    /\ pc \notin {loop, judge}
        => /\ pc' # judge
           /\ pc' = loop
                => \A i \in Occupied(optimizedSlots) :
                    At(optimizedSlots, i).stack_size = size
                        => At(optimizedSlots', i).quantity = At(optimizedSlots, i).quantity

\* C23: the 16-class pass and the 64-class pass fill the candidates of their
\* class from the highest index downwards, one unit at a time: the candidate
\* incremented is one whose higher-index classmates all hold their stack
\* limit; the increment that makes the score exceed the argument's score is
\* undone and the pass ends there.
PassesFromTheEnd ==
    [][(pc = "call" \/ Working)
        => /\ PassInOrder("s2_loop", "s2_judge", "s3", 16)
           /\ PassInOrder("s3_loop", "s3_judge", "s4", 64)]_vars

\* The 16-class pass has filled the candidates at the higher indices and the
\* increment of a lower one has made the score exceed: it is about to be
\* undone.
PassesFromTheEndWitness ==
    /\ pc = "s2_judge" /\ call = 1 /\ WellFormed(given)
    /\ calculateSignalStrength(optimizedSlots) > currentSignal
    /\ \E j \in Candidates(optimizedSlots) :
        /\ j > Head(queue)
        /\ At(optimizedSlots, j).stack_size = 16
        /\ At(optimizedSlots, j).quantity = 16
        /\ At(given, j).quantity < 16


\* The steps of the search, in the order the claim gives them.
StepOf(p) ==
    CASE p \in {"s1", "s1_scan", "s1_judge"} -> 1
      [] p \in {"s2", "s2_loop", "s2_judge"} -> 2
      [] p \in {"s3", "s3_loop", "s3_judge"} -> 3
      [] p \in {"s4", "s4_scan", "s4_judge"} -> 4
      [] p \in {"s5", "s5_loop", "s5_judge"} -> 5
      [] OTHER -> 0

\* Some candidate of the classification has this stack size.
ClassPresent(size) ==
    \E k \in 1 .. Len(forcedItems) :
        At(optimizedSlots, forcedItems[k]).stack_size = size

\* C24: the search runs unstackable duplication, the 16-class pass, the
\* 64-class pass, gap-filling duplication and the final pass in this order,
\* each finished before the next begins, all against the one score of the
\* normalized argument; the step of a stack class runs only if the class has a
\* candidate, and a class whose step runs out of slots or candidates without
\* the score rising stays not at threshold.
FixedOrder ==
    /\ [](pc = "classify" => currentSignal = calculateSignalStrength(Normalized(input)))
    /\ [](/\ pc \in {"s1_scan", "s1_judge"} => ClassPresent(1)
          /\ pc \in {"s2_loop", "s2_judge"} => ClassPresent(16)
          /\ pc \in {"s3_loop", "s3_judge"} => ClassPresent(64))
    /\ [][/\ (StepOf(pc) # 0 /\ StepOf(pc') # 0)
            => /\ StepOf(pc') \in {StepOf(pc), StepOf(pc) + 1}
               /\ currentSignal' = currentSignal
          /\ (pc = "classify" /\ Working') => (pc' = "s1" /\ currentSignal' = currentSignal)
          /\ (StepOf(pc) = 5 /\ StepOf(pc') # 5) => pc' = "refinalize"
          /\ (pc = "s1_scan" /\ pc' = "s2") => ~AreUnstackablesAtThreshold'
          /\ (pc = "s2_loop" /\ pc' = "s3") => ~Are16StackablesAtThreshold'
          /\ (pc = "s3_loop" /\ pc' = "s4") => ~Are64StackablesAtThreshold'
          /\ (pc = "s1" /\ pc' = "s2") => ~AreUnstackablesAtThreshold'
          /\ (pc = "s2" /\ pc' = "s3") => ~Are16StackablesAtThreshold'
          /\ (pc = "s3" /\ pc' = "s4") => ~Are64StackablesAtThreshold'
         ]_vars

\* Both passes are over: the 16-class pass filled its candidates without the
\* score rising and left the class not at threshold, the 64-class pass that
\* came after it ended on the threshold.
FixedOrderWitness ==
    /\ pc = "s4" /\ call = 1 /\ WellFormed(given)
    /\ ClassPresent(16) /\ ~Are16StackablesAtThreshold
    /\ ClassPresent(64) /\ Are64StackablesAtThreshold
    /\ \E i \in Occupied(given) : At(given, i).stack_size = 16 /\ At(given, i).quantity < 16


\* C25: in the output of optimizeForRedstone on a container with an item,
\* isAdjusted and forceAdjusted of every occupied slot are both true when its
\* quantity is above 1 or another occupied slot of the output has its
\* identifier, and both false otherwise.
FlagsRecomputed ==
    (Returned /\ Count(input) > 0)
        => \A i \in Occupied(result) :
            /\ At(result, i).forceAdjusted = Flag(IsAdjustedNow(result, i))
            /\ At(result, i).isAdjusted = At(result, i).forceAdjusted

\* The classification marked every slot a candidate (no quantity above 1), or
\* the argument came with its flags set, and the output has a slot with both
\* flags false next to slots with both true.
FlagsRecomputedWitness ==
    /\ Returned
    /\ UnadjustedIn(result) # {}
    /\ AdjustedIn(result) # {}
    /\ \/ ~SomeQuantityAbove1(input)
       \/ \E i \in Occupied(input) : At(input, i).forceAdjusted = "true"
    /\ \E i \in UnadjustedIn(result) : At(result, i).forceAdjusted = "false"


\* item.originalIndex ?? idx, for the slot at index i
Origin(s, i) ==
    IF At(s, i).originalIndex = Unset THEN i ELSE At(s, i).originalIndex

\* How many occupied slots carry this identifier with this originalIndex.
Carrying(s, id, v) ==
    Cardinality({j \in Occupied(s) : At(s, j).id = id /\ Origin(s, j) = v})

\* C26: the slots of the output that came from the argument carry the index
\* they had in the argument when the argument gave no originalIndex, and the
\* originalIndex of the argument when it gave one; every slot the call put in
\* carries -1; a slot whose quantity is unset enters the search with quantity 1.
OriginalIndexKept ==
    /\ pc = "classify"
        => \A i \in Occupied(input) :
            /\ At(optimizedSlots, i).originalIndex = Origin(input, i)
            /\ At(input, i).quantity = Unset => At(optimizedSlots, i).quantity = 1
    /\ (Returned /\ Count(input) > 0)
        => /\ \A i \in Occupied(input) :
                Origin(input, i) # Synthesized
                    => Carrying(result, At(input, i).id, Origin(input, i))
                        = Carrying(input, At(input, i).id, Origin(input, i))
           /\ \A j \in Occupied(result) :
                /\ At(result, j).originalIndex # Unset
                /\ \/ At(result, j).originalIndex = Synthesized
                   \/ \E i \in Occupied(input) :
                        /\ At(input, i).id = At(result, j).id
                        /\ Origin(input, i) = At(result, j).originalIndex
           /\ Cardinality(SynthesizedIn(result))
                = Cardinality(SynthesizedIn(input)) + Count(result) - Count(input)
           /\ \A i \in Occupied(input) :
                At(input, i).originalIndex = Unset
                    => Cardinality({j \in Occupied(result) : At(result, j).originalIndex = i}) = 1

\* A first call on a container with a slot of unset quantity and no
\* originalIndex, whose output holds that slot and synthesized ones.
OriginalIndexKeptWitness ==
    /\ Returned /\ call = 1
    /\ SynthesizedIn(result) # {}
    /\ \E i \in Occupied(input) :
        /\ At(input, i).quantity = Unset
        /\ At(input, i).originalIndex = Unset
        /\ \E j \in Occupied(result) : At(result, j).originalIndex = i /\ j # i


\* How many occupied slots hold this identifier and stack size with at least
\* this quantity.
HoldingAtLeast(s, id, size, q) ==
    Cardinality({j \in Occupied(s) :
                    /\ At(s, j).id = id
                    /\ At(s, j).stack_size = size
                    /\ At(s, j).quantity >= q})

\* C27: every occupied slot of a well-formed argument is in the output once,
\* with its identifier and stack size and a quantity not below its own.  For
\* an argument without originalIndex the output slot is the one that carries
\* the slot's index; for any argument, the slots of the output can be matched
\* one to one to the slots of the argument: for each item and each quantity,
\* the output has at least as many slots of that item with that quantity or
\* more as the argument has.
InputKept ==
    (Returned /\ WellFormed(input))
        => /\ \A i \in Occupied(input) :
                /\ HoldingAtLeast(result, At(input, i).id, At(input, i).stack_size,
                                  At(input, i).quantity)
                     >= HoldingAtLeast(input, At(input, i).id, At(input, i).stack_size,
                                       At(input, i).quantity)
                /\ At(input, i).originalIndex = Unset
                    => \E j \in Occupied(result) :
                        /\ At(result, j).originalIndex = i
                        /\ At(result, j).id = At(input, i).id
                        /\ At(result, j).stack_size = At(input, i).stack_size
                        /\ At(result, j).rarity = At(input, i).rarity
                        /\ At(result, j).quantity >= At(input, i).quantity
                        /\ \A k \in Occupied(result) :
                            At(result, k).originalIndex = i => k = j
           /\ Count(result) >= Count(input)

\* A call that undid a clone, raised quantities and added slots, and whose
\* output moved slots of the argument to other indices.
InputKeptWitness ==
    /\ Returned /\ call = 1 /\ WellFormed(input)
    /\ Count(result) > Count(input)
    /\ \E i \in Occupied(input), j \in Occupied(result) :
        /\ At(result, j).originalIndex = i
        /\ j # i
    /\ \E i \in Occupied(input), j \in Occupied(result) :
        /\ At(result, j).originalIndex = i
        /\ At(result, j).quantity > At(input, i).quantity


\* The step raises the quantity of one slot by one, within its stack size.
OneUnitMore ==
    \E i \in Occupied(optimizedSlots) :
        /\ At(optimizedSlots', i) # At(optimizedSlots, i)
        /\ At(optimizedSlots, i).quantity < At(optimizedSlots, i).stack_size
        /\ optimizedSlots' = SetQuantity(optimizedSlots, i, At(optimizedSlots, i).quantity + 1)

\* The step puts one slot of quantity 1 into an empty position.
OneSlotMore ==
    \E i \in Indices(optimizedSlots) \ Occupied(optimizedSlots) :
        /\ At(optimizedSlots', i) # Null
        /\ At(optimizedSlots', i).quantity = 1
        /\ optimizedSlots' = Put(optimizedSlots, i, At(optimizedSlots', i))

\* C28: on a container with an item, one more unit in a slot or one more
\* slot of quantity 1 leaves calculateSignalStrength as it is or raises it by
\* 1; and the score is the same for the slots in the order of the layout, in
\* reversed order and in the order of the search.
ScoreSteps ==
    /\ [](pc = "layout"
            => /\ calculateSignalStrength(LaidOut(optimizedSlots))
                    = calculateSignalStrength(optimizedSlots)
               /\ calculateSignalStrength(Reverse(optimizedSlots))
                    = calculateSignalStrength(optimizedSlots))
    /\ []((pc = "measured" /\ At(result, 0) = Null)
            => optimizedSignalPlus1 - optimizedSignal \in {0, 1})
    /\ [][(/\ Working /\ Working'
           /\ optimizedSlots' # optimizedSlots
           /\ Count(optimizedSlots) > 0
           /\ OneUnitMore \/ OneSlotMore)
            => calculateSignalStrength(optimizedSlots')
                 - calculateSignalStrength(optimizedSlots) \in {0, 1}]_vars

\* The search has put a clone of quantity 1 into an empty slot and the score
\* rose by one; the array is not in the order its layout will have.
ScoreStepsWitness ==
    /\ pc = "s1_judge"
    /\ At(optimizedSlots, cursor).quantity = 1
    /\ calculateSignalStrength(optimizedSlots) = currentSignal + 1
    /\ calculateSignalStrength(Put(optimizedSlots, cursor, Null)) = currentSignal
    /\ nullsNeeded(optimizedSlots) >= 0
    /\ LaidOut(optimizedSlots) # optimizedSlots


\* All 54 slots are occupied and each holds a full stack.
AllFull(s) ==
    /\ Len(s) = invSize
    /\ \A i \in Indices(s) :
        /\ At(s, i) # Null
        /\ Quantity(At(s, i)) = StackLimit(At(s, i))

\* What C29 says of a well-formed container and its score.
WellFormedScore(s, signal) ==
    WellFormed(s) => (signal \in 0 .. 14 /\ (signal >= 1 <=> Count(s) > 0))

\* C29 as stated: calculateSignalStrength returns 15 only for 54 occupied
\* slots that each hold a full stack, whatever the container; a well-formed
\* container scores from 0 to 14, and at least 1 exactly when it has an item.
FifteenOnlyWhenFull ==
    /\ (pc = "call" /\ call = 1)
        => /\ previousSignal = 15 => AllFull(given)
           /\ WellFormedScore(given, previousSignal)
    /\ pc = "scored"
        => /\ optimizedSignal = 15 => AllFull(result)
           /\ WellFormedScore(result, optimizedSignal)

\* C29, amended: among the containers whose quantities are within their stack
\* sizes, calculateSignalStrength returns 15 only for 54 occupied slots that
\* each hold a full stack; a well-formed container scores from 0 to 14, and at
\* least 1 exactly when it has an item.
FifteenOnlyWhenFullWithinLimits ==
    /\ (pc = "call" /\ call = 1)
        => /\ (InLimits(given) /\ previousSignal = 15) => AllFull(given)
           /\ WellFormedScore(given, previousSignal)
    /\ pc = "scored"
        => /\ (InLimits(result) /\ optimizedSignal = 15) => AllFull(result)
           /\ WellFormedScore(result, optimizedSignal)

\* The scorer has returned 15 for 54 full slots, within their limits.
FifteenOnlyWhenFullWithinLimitsWitness ==
    /\ pc = "call" /\ call = 1
    /\ InLimits(given) /\ AllFull(given)
    /\ previousSignal = 15
    /\ calculateSignalStrength(Put(given, 0, Null)) = 14


\* C30: in the output, every slot the call put in has the identifier and
\* stack size of a slot of the argument and is in the adjusted group, the
\* trailing block of the array; every slot of the unadjusted group is a slot
\* of the argument, holds quantity 1 as it did in the argument, and no other
\* slot of the output has its identifier.
GroupsOfOutput ==
    (Returned /\ Count(input) > 0)
        => /\ \A j \in SynthesizedIn(result) :
                /\ \E i \in Occupied(input) :
                    /\ At(input, i).id = At(result, j).id
                    /\ At(input, i).stack_size = At(result, j).stack_size
                /\ j \in AdjustedIn(result)
                /\ j >= Len(result) - Cardinality(AdjustedIn(result))
           /\ \A j \in UnadjustedIn(result) :
                /\ At(result, j).originalIndex # Synthesized
                /\ \E i \in Occupied(input) :
                    /\ Origin(input, i) = At(result, j).originalIndex
                    /\ At(input, i).id = At(result, j).id
                    /\ Quantity(At(input, i)) = 1
                /\ At(result, j).quantity = 1
                /\ \A k \in Occupied(result) : At(result, k).id = At(result, j).id => k = j
                /\ j <= Cardinality(UnadjustedIn(result))

\* A first call whose output has clones of a slot of the argument in the
\* adjusted group and a slot of the argument alone in the unadjusted group.
GroupsOfOutputWitness ==
    /\ Returned /\ call = 1
    /\ SynthesizedIn(result) # {}
    /\ UnadjustedIn(result) # {}
    /\ \E j \in SynthesizedIn(result) : At(result, j).quantity = 1

====
